---------------------------- MODULE Spec2Model ----------------------------
(***************************************************************************)
(* GPzoo.js: kernels (src/src/kernels.ts), the dense linear algebra        *)
(* utilities and the Gaussian Process entry points (src/unnamed/part_000). *)
(*                                                                         *)
(* Numbers.  A JavaScript number is modelled as an exact real of the form  *)
(*     (n1/d1)*sqrt(r1) + ... + (nk/dk)*sqrt(rk)                           *)
(* kept in canonical form: a sequence of terms <<n, d, r>> with n # 0,     *)
(* d > 0, gcd(n, d) = 1, r >= 1 squarefree, strictly ascending in r.  The  *)
(* empty sequence is 0 and r = 1 is a rational.  Rounding of IEEE doubles  *)
(* is not modelled; NaN, +Infinity, -Infinity and the value `undefined`    *)
(* are distinguished values with the arithmetic JavaScript gives them.     *)
(*                                                                         *)
(* Units.  Variances (signalVariance, kernel values, the jitters) are held *)
(* in units of 1e-8 and standard deviations (noiseLevel, Cholesky factors) *)
(* in units of 1e-4, so that the program constants 1e-8, 1e-10 and 1e-6    *)
(* are the rationals 1, 1/100 and 100.  The code is homogeneous in that    *)
(* unit: every sum it forms adds quantities of one dimension.              *)
(***************************************************************************)
EXTENDS Integers, Sequences, FiniteSets, TLC

VARIABLES pc, call, ret, loc, u, v, zeros, drawn

vars == <<pc, call, ret, loc, u, v, zeros, drawn>>

---------------------------------------------------------------------------
(* Exact arithmetic on JavaScript numbers                                  *)

AbsI(n) == IF n < 0 THEN -n ELSE n

SgnI(n) == IF n < 0 THEN -1 ELSE IF n = 0 THEN 0 ELSE 1

RECURSIVE GCD(_, _)
GCD(a, b) == IF b = 0 THEN AbsI(a) ELSE GCD(AbsI(b), AbsI(a) % AbsI(b))

NaN == << <<0, 0, 0>> >>

PosInf == << <<1, 0, 0>> >>

NegInf == << <<-1, 0, 0>> >>

Undefined == << <<0, 0, 1>> >>

Zero == << >>

IsSpecial(a) == a # << >> /\ a[1][2] = 0

IsFiniteN(a) == ~IsSpecial(a)

\* ToNumber: `undefined` becomes NaN in arithmetic
ToNum(a) == IF a = Undefined THEN NaN ELSE a

\* the canonical term (n/d)*sqrt(r), r squarefree; the empty sum when n = 0
Term(n, d, r) ==
    IF n = 0 THEN << >>
    ELSE LET g == GCD(n, d)
             s == IF d < 0 THEN -1 ELSE 1
         IN  << <<s * (n \div g), s * (d \div g), r>> >>

Rat(n, d) == Term(n, d, 1)

Num(n) == Term(n, 1, 1)

One == Num(1)

\* sum of two finite canonical sums (a merge on the radicands)
RECURSIVE Merge(_, _)
Merge(a, b) ==
    IF a = << >> THEN b
    ELSE IF b = << >> THEN a
    ELSE LET s == a[1]
             t == b[1]
         IN  IF s[3] < t[3] THEN <<s>> \o Merge(Tail(a), b)
             ELSE IF t[3] < s[3] THEN <<t>> \o Merge(a, Tail(b))
             ELSE LET g == GCD(s[2], t[2])
                  IN  Term(s[1] * (t[2] \div g) + t[1] * (s[2] \div g),
                           s[2] * (t[2] \div g), s[3])
                          \o Merge(Tail(a), Tail(b))

NegN(a0) ==
    LET a == ToNum(a0)
    IN  IF a = NaN THEN NaN
        ELSE IF a = PosInf THEN NegInf
        ELSE IF a = NegInf THEN PosInf
        ELSE [i \in 1..Len(a) |-> <<-a[i][1], a[i][2], a[i][3]>>]

AddN(a0, b0) ==
    LET a == ToNum(a0)
        b == ToNum(b0)
    IN  IF a = NaN \/ b = NaN THEN NaN
        ELSE IF IsSpecial(a) THEN (IF IsSpecial(b) /\ b # a THEN NaN ELSE a)
        ELSE IF IsSpecial(b) THEN b
        ELSE Merge(a, b)

SubN(a, b) == AddN(a, NegN(b))

\* sign of a finite sum of at most two terms (all the code ever compares)
SignN(a) ==
    CASE Len(a) = 0 -> 0
      [] Len(a) = 1 -> SgnI(a[1][1])
      [] Len(a) = 2 ->
            LET s == a[1]
                t == a[2]
            IN  IF SgnI(s[1]) = SgnI(t[1]) THEN SgnI(s[1])
                ELSE IF s[1] * s[1] * s[3] * t[2] * t[2]
                          > t[1] * t[1] * t[3] * s[2] * s[2]
                     THEN SgnI(s[1]) ELSE SgnI(t[1])

SignX(a) == IF a = PosInf THEN 1 ELSE IF a = NegInf THEN -1 ELSE SignN(a)

\* product of two terms: sqrt(r1)*sqrt(r2) = g*sqrt((r1/g)*(r2/g)), g = gcd;
\* the coefficients are reduced crosswise before they are multiplied
TermMul(s, t) ==
    LET g  == GCD(s[3], t[3])
        g1 == GCD(s[1], t[2])
        g2 == GCD(t[1], s[2])
        ga == GCD(g, s[2] \div g2)
        gb == GCD(g \div ga, t[2] \div g1)
    IN  Term((s[1] \div g1) * (t[1] \div g2) * ((g \div ga) \div gb),
             ((s[2] \div g2) \div ga) * ((t[2] \div g1) \div gb),
             (s[3] \div g) * (t[3] \div g))

RECURSIVE MulTerms(_, _, _)
MulTerms(a, b, k) ==
    IF k > Len(a) * Len(b) THEN << >>
    ELSE Merge(TermMul(a[((k - 1) \div Len(b)) + 1], b[((k - 1) % Len(b)) + 1]),
               MulTerms(a, b, k + 1))

MulN(a0, b0) ==
    LET a == ToNum(a0)
        b == ToNum(b0)
    IN  IF a = NaN \/ b = NaN THEN NaN
        ELSE IF IsSpecial(a) \/ IsSpecial(b)
             THEN (IF a = Zero \/ b = Zero THEN NaN
                   ELSE IF SignX(a) * SignX(b) > 0 THEN PosInf ELSE NegInf)
        ELSE IF a = Zero \/ b = Zero THEN Zero
        ELSE MulTerms(a, b, 1)

\* 1/((n/d)*sqrt(r)) = (d/(n*r))*sqrt(r)
InvTerm(t) == Term(t[2], t[1] * t[3], t[3])

\* a / b; the code divides by rationals and by single square roots only
DivN(a0, b0) ==
    LET a == ToNum(a0)
        b == ToNum(b0)
    IN  IF a = NaN \/ b = NaN THEN NaN
        ELSE IF IsSpecial(b) THEN (IF IsSpecial(a) THEN NaN ELSE Zero)
        ELSE IF b = Zero
             THEN (IF a = Zero THEN NaN
                   ELSE IF SignX(a) > 0 THEN PosInf ELSE NegInf)
        ELSE IF IsSpecial(a)
             THEN (IF SignX(a) * SignN(b) > 0 THEN PosInf ELSE NegInf)
        ELSE CASE Len(b) = 1 -> MulN(a, InvTerm(b[1]))

\* the largest r in lo..hi with r*r <= n, by bisection
RECURSIVE ISqrt(_, _, _)
ISqrt(n, lo, hi) ==
    IF lo >= hi THEN lo
    ELSE LET mid == (lo + hi + 1) \div 2
         IN  IF mid * mid <= n THEN ISqrt(n, mid, hi) ELSE ISqrt(n, lo, mid - 1)

\* the largest r in lo..hi with r*r*r <= n, by bisection
RECURSIVE ICbrt(_, _, _)
ICbrt(n, lo, hi) ==
    IF lo >= hi THEN lo
    ELSE LET mid == (lo + hi + 1) \div 2
         IN  IF mid * mid * mid <= n THEN ICbrt(n, mid, hi)
             ELSE ICbrt(n, lo, mid - 1)

\* the largest s with s*s dividing n (n >= 1): with n = s*s*r, either s or r
\* is at most the cube root of n, rounded up
SquarePart(n) ==
    LET c == ICbrt(n, 1, 1290) + 1
        S == {k \in 1..c : n % (k * k) = 0}
             \cup {ISqrt(n \div m, 1, 46340) : m \in
                     {k \in 1..c : n % k = 0
                                   /\ ISqrt(n \div k, 1, 46340)
                                        * ISqrt(n \div k, 1, 46340) = n \div k}}
    IN  CHOOSE k \in S : \A j \in S : j <= k

\* Math.sqrt on a rational n/d = (a*a*p)/(b*b*q): (a/(b*q))*sqrt(p*q)
SqrtN(a0) ==
    LET a == ToNum(a0)
    IN  IF a = NaN \/ a = NegInf THEN NaN
        ELSE IF a = PosInf THEN PosInf
        ELSE IF a = Zero THEN Zero
        ELSE CASE Len(a) = 1 /\ a[1][3] = 1 ->
                 IF a[1][1] < 0 THEN NaN
                 ELSE LET sa == SquarePart(a[1][1])
                          sb == SquarePart(a[1][2])
                          p  == a[1][1] \div (sa * sa)
                          q  == a[1][2] \div (sb * sb)
                      IN  Term(sa, sb * q, p * q)

\* Math.max of two numbers: NaN if either is NaN
MaxN(a0, b0) ==
    LET a == ToNum(a0)
        b == ToNum(b0)
    IN  IF a = NaN \/ b = NaN THEN NaN
        ELSE IF a = b THEN a
        ELSE IF a = PosInf \/ b = NegInf THEN a
        ELSE IF b = PosInf \/ a = NegInf THEN b
        ELSE IF SignN(SubN(a, b)) >= 0 THEN a ELSE b

\* Math.abs
AbsN(a0) ==
    LET a == ToNum(a0)
    IN  IF a = NaN THEN NaN
        ELSE IF IsSpecial(a) THEN PosInf
        ELSE IF SignN(a) < 0 THEN NegN(a) ELSE a

\* a >= b on finite numbers
GeqN(a, b) ==
    LET d == SubN(a, b)
    IN  d # NaN /\ SignX(d) >= 0

---------------------------------------------------------------------------
(* Program constants, in the units stated above                            *)

\* 1e-8: the jitter of the training and prior covariance
JITTER == Rat(1, 1)

\* 1e-10: the floor of a Cholesky pivot and of a reported variance
FLOOR == Rat(1, 100)

\* 1e-6: the jitter of the posterior-sample covariance
SIGMA_JITTER == Rat(100, 1)

---------------------------------------------------------------------------
(* Arrays: JavaScript arrays are sequences; index i of the code is i + 1   *)

\* a[i] for a 0-based index: `undefined` outside the array
At(a, i) == IF i + 1 \in 1..Len(a) THEN a[i + 1] ELSE Undefined

Ok(val) == [outcome |-> "ok", val |-> val]

Throw(err) == [outcome |-> "throw", err |-> err]

\* Array(n).fill(null).map(() => Array(m).fill(val))
full(n, m, val) == [i \in 1..n |-> [j \in 1..m |-> val]]

\* linspace: Array(n) throws a RangeError for a negative length
linspace(start, end, n) ==
    LET step == DivN(SubN(end, start), Num(n - 1))
    IN  IF n < 0 THEN Throw("RangeError")
        ELSE Ok([i \in 1..n |-> AddN(start, MulN(Num(i - 1), step))])

\* transpose: A[0].map(...) throws a TypeError when A has no row 0
transpose(A) ==
    IF Len(A) = 0 THEN Throw("TypeError")
    ELSE Ok([j \in 1..Len(A[1]) |-> [i \in 1..Len(A) |-> At(A[i], j - 1)]])

\* row.reduce((s, a, i) => s + a * x[i], 0), from index i on
RECURSIVE rowDot(_, _, _, _)
rowDot(row, x, i, s) ==
    IF i >= Len(row) THEN s
    ELSE rowDot(row, x, i + 1, AddN(s, MulN(At(row, i), At(x, i))))

matVec(A, x) == [i \in 1..Len(A) |-> rowDot(A[i], x, 0, Zero)]

addDiag(A, c) ==
    [i \in 1..Len(A) |-> [j \in 1..Len(A[i]) |->
        IF i = j THEN AddN(A[i][j], c) ELSE A[i][j]]]

\* an inner loop that never runs (a variant of cholSum that C6 must tell
\* apart)
cholSumSkipped(L, i, j, k, sum) == sum

\* the inner loop of cholesky: sum += L[i][k] * L[j][k] for k < j
RECURSIVE cholSum(_, _, _, _, _)
cholSum(L, i, j, k, sum) ==
    IF k >= j THEN sum
    ELSE cholSum(L, i, j, k + 1, AddN(sum, MulN(At(L[i + 1], k), At(L[j + 1], k))))

\* one entry of the factor, from the entries already written to L
cholEntry(A, L, i, j) ==
    LET sum == cholSum(L, i, j, 0, Zero)
    IN  IF i = j
        THEN SqrtN(MaxN(SubN(At(A[i + 1], i), sum), FLOOR))
        ELSE DivN(SubN(At(A[i + 1], j), sum), At(L[j + 1], j))

\* the two outer loops of cholesky: rows i, columns j <= i
RECURSIVE cholLoop(_, _, _, _)
cholLoop(A, L, i, j) ==
    IF i >= Len(A) THEN L
    ELSE IF j > i THEN cholLoop(A, L, i + 1, 0)
    ELSE cholLoop(A, [L EXCEPT ![i + 1][j + 1] = cholEntry(A, L, i, j)], i, j + 1)

cholesky(A) == cholLoop(A, full(Len(A), Len(A), Zero), 0, 0)

\* the inner loop of solveL: sum -= L[i][j] * x[j] for j < i
RECURSIVE fwdSum(_, _, _, _, _)
fwdSum(L, x, i, j, sum) ==
    IF j >= i THEN sum
    ELSE fwdSum(L, x, i, j + 1, SubN(sum, MulN(At(L[i + 1], j), x[j + 1])))

RECURSIVE fwdLoop(_, _, _, _)
fwdLoop(L, b, x, i) ==
    IF i >= Len(L) THEN x
    ELSE fwdLoop(L, b,
                 [x EXCEPT ![i + 1] =
                     DivN(fwdSum(L, x, i, 0, At(b, i)), At(L[i + 1], i))],
                 i + 1)

solveL(L, b) == fwdLoop(L, b, [i \in 1..Len(L) |-> Zero], 0)

\* a backward sum over row i of L instead of column i (a variant of bwdSum
\* that C7 must tell apart)
RECURSIVE bwdSumRow(_, _, _, _, _)
bwdSumRow(L, x, i, j, sum) ==
    IF j >= Len(L) THEN sum
    ELSE bwdSumRow(L, x, i, j + 1, SubN(sum, MulN(At(L[i + 1], j), x[j + 1])))

\* the inner loop of solveLT: sum -= L[j][i] * x[j] for j > i
RECURSIVE bwdSum(_, _, _, _, _)
bwdSum(L, x, i, j, sum) ==
    IF j >= Len(L) THEN sum
    ELSE bwdSum(L, x, i, j + 1, SubN(sum, MulN(At(L[j + 1], i), x[j + 1])))

RECURSIVE bwdLoop(_, _, _, _)
bwdLoop(L, b, x, i) ==
    IF i < 0 THEN x
    ELSE bwdLoop(L, b,
                 [x EXCEPT ![i + 1] =
                     DivN(bwdSum(L, x, i, i + 1, At(b, i)), At(L[i + 1], i))],
                 i - 1)

solveLT(L, b) == bwdLoop(L, b, [i \in 1..Len(L) |-> Zero], Len(L) - 1)

choleskySolve(L, b) == solveLT(L, solveL(L, b))

---------------------------------------------------------------------------
(* Kernels (src/src/kernels.ts)                                            *)

\* Math.exp, tabulated on the arguments the kernels form over the bounded
\* inputs; each entry is a rational near e^x (exp(-0) = 1, exp(-Infinity) = 0)
ExpN(a0) ==
    LET a == ToNum(a0)
    IN  IF a = NaN THEN NaN
        ELSE IF a = NegInf THEN Zero
        ELSE IF a = PosInf THEN PosInf
        ELSE CASE a = Zero       -> One
               [] a = Rat(-1, 8) -> Rat(7, 8)
               [] a = Rat(-1, 2) -> Rat(5, 8)
               [] a = Rat(-1, 1) -> Rat(3, 8)
               [] a = Rat(-2, 1) -> Rat(1, 8)
               [] a = Rat(-7, 8) -> Rat(5, 12)
               [] a = Rat(-7, 4) -> Rat(2, 11)
               [] a = Rat(-7, 2) -> Rat(1, 36)
               [] a = Rat(-9, 8) -> Rat(39, 122)
               [] a = Rat(-9, 4) -> Rat(6, 59)
               [] a = Rat(-9, 2) -> Rat(3, 292)

\* Math.sqrt(3) and Math.sqrt(5), to quarter precision
SQRT3 == Rat(7, 4)

SQRT5 == Rat(9, 4)

rbf(x1, x2, lengthScale, signalVariance) ==
    LET d  == SubN(x1, x2)
        l2 == MulN(lengthScale, lengthScale)
    IN  MulN(signalVariance, ExpN(DivN(MulN(MulN(Rat(-1, 2), d), d), l2)))

matern12(x1, x2, lengthScale, signalVariance) ==
    LET r == DivN(AbsN(SubN(x1, x2)), lengthScale)
    IN  MulN(signalVariance, ExpN(NegN(r)))

matern32(x1, x2, lengthScale, signalVariance) ==
    LET r      == DivN(AbsN(SubN(x1, x2)), lengthScale)
        sqrt3r == MulN(SQRT3, r)
    IN  MulN(MulN(signalVariance, AddN(One, sqrt3r)), ExpN(NegN(sqrt3r)))

matern52(x1, x2, lengthScale, signalVariance) ==
    LET r      == DivN(AbsN(SubN(x1, x2)), lengthScale)
        sqrt5r == MulN(SQRT5, r)
    IN  MulN(MulN(signalVariance,
                  AddN(AddN(One, sqrt5r), DivN(MulN(MulN(Num(5), r), r), Num(3)))),
             ExpN(NegN(sqrt5r)))

\* the names KERNEL_FNS defines itself
Registered == {"rbf", "matern12", "matern32", "matern52"}

\* KERNEL_FNS[kernelName]: an own property, else a property the object
\* literal inherits from Object.prototype, else undefined
KERNEL_FNS(kernelName) ==
    CASE kernelName \in Registered   -> kernelName
      [] kernelName = "constructor"  -> "Object"
      [] kernelName = "__proto__"    -> "Object.prototype"
      [] OTHER                       -> "undefined"

\* kernelFn = KERNEL_FNS[kernelName] || rbf
kernelFnOf(kernelName) ==
    IF KERNEL_FNS(kernelName) = "undefined" THEN "rbf" ELSE KERNEL_FNS(kernelName)

\* calling Object.prototype, which is no function, throws a TypeError
Callable(fn) == fn # "Object.prototype"

\* kernelFn(xi, xj, lengthScale, signalVariance); Object(xi) is xi boxed
applyKernel(fn, xi, xj, lengthScale, signalVariance) ==
    CASE fn = "rbf"      -> rbf(xi, xj, lengthScale, signalVariance)
      [] fn = "matern12" -> matern12(xi, xj, lengthScale, signalVariance)
      [] fn = "matern32" -> matern32(xi, xj, lengthScale, signalVariance)
      [] fn = "matern52" -> matern52(xi, xj, lengthScale, signalVariance)
      [] fn = "Object"   -> xi

\* kernelMatrix: the resolved function, and the matrix or the error
kernelMatrix(x1, x2, lengthScale, signalVariance, kernelName) ==
    LET kernelFn == kernelFnOf(kernelName)
    IN  IF ~Callable(kernelFn) /\ Len(x1) > 0 /\ Len(x2) > 0
        THEN [outcome |-> "throw", err |-> "TypeError", fn |-> kernelFn]
        ELSE [outcome |-> "ok", fn |-> kernelFn,
              val |-> [i \in 1..Len(x1) |-> [j \in 1..Len(x2) |->
                         applyKernel(kernelFn, x1[i], x2[j],
                                     lengthScale, signalVariance)]]]

---------------------------------------------------------------------------
(* Gaussian Process entry points (gp.ts)                                   *)

\* params.kernel when the field is absent
Absent == "(absent)"

\* params.kernel || 'rbf'
kernelNameOf(params) ==
    IF params.kernel = Absent \/ params.kernel = "" THEN "rbf" ELSE params.kernel

\* v.reduce((s, vi, j) => s + vi * w[j], 0), from index j on
RECURSIVE dot(_, _, _, _)
dot(a, w, j, s) ==
    IF j >= Len(a) THEN s
    ELSE dot(a, w, j + 1, AddN(s, MulN(a[j + 1], At(w, j))))

KCall(K) == <<"kernelMatrix", K.fn>>

CholCall == <<"cholesky", "">>

\* a prior branch of unit variance, whatever signalVariance is (a variant of
\* priorResult that C1 must tell apart)
priorResultUnit(m, params) ==
    [outcome |-> "ok",
     mean |-> [i \in 1..m |-> Zero],
     variance |-> [i \in 1..m |-> One],
     calls |-> << >>]

\* the prior branch of computePosterior (n === 0)
priorResult(m, params) ==
    [outcome |-> "ok",
     mean |-> [i \in 1..m |-> Zero],
     variance |-> [i \in 1..m |-> params.signalVariance],
     calls |-> << >>]

\* K(X, X) + noise * I, as both entry points form it
noiseDiag(params) == AddN(MulN(params.noiseLevel, params.noiseLevel), JITTER)

\* alpha by the full two-step solve (a variant of cpAlpha that C10 must tell
\* apart)
cpAlphaFull(L, y) == choleskySolve(L, y)

\* const alpha = solveL(L, y) of computePosterior
cpAlpha(L, y) == solveL(L, y)

\* the variance entry without its floor (a variant of varEntry that C4 must
\* tell apart)
varEntryRaw(k_ss, vTv) == SubN(k_ss, vTv)

\* acc.variance.push(Math.max(k_ss - vTv, 1e-10))
varEntry(k_ss, vTv) == MaxN(SubN(k_ss, vTv), FLOOR)

\* a reduce that prepends instead of pushing (a variant of reduceMeanVar that
\* C2 must tell apart)
reduceMeanVarRev(vs, alpha, k_ss) ==
    [mean |-> [i \in 1..Len(vs) |-> dot(vs[Len(vs) + 1 - i], alpha, 0, Zero)],
     variance |-> [i \in 1..Len(vs) |->
                      MaxN(SubN(k_ss, dot(vs[Len(vs) + 1 - i],
                                          vs[Len(vs) + 1 - i], 0, Zero)), FLOOR)]]

\* K_Xs.map(row => solveL(L, row)).reduce(...): entry i of mean and variance
\* is pushed i-th
reduceMeanVar(vs, alpha, k_ss) ==
    [mean |-> [i \in 1..Len(vs) |-> dot(vs[i], alpha, 0, Zero)],
     variance |-> [i \in 1..Len(vs) |->
                      varEntry(k_ss, dot(vs[i], vs[i], 0, Zero))]]

\* points.map(p => p.x) and points.map(p => p.y)
XOf(points) == [i \in 1..Len(points) |-> points[i].x]

YOf(points) == [i \in 1..Len(points) |-> points[i].y]

\* an error thrown out of an entry point, with the calls made before it
Thrown(err, calls) == [outcome |-> "throw", err |-> err, calls |-> calls]

\* computePosterior from K_Xs on: alpha, the per-query solves and the reduce
cpReduce(K0, L, K_Xs, y, params) ==
    IF K_Xs.outcome = "throw"
    THEN Thrown(K_Xs.err, <<KCall(K0), CholCall, KCall(K_Xs)>>)
    ELSE [outcome |-> "ok", calls |-> <<KCall(K0), CholCall, KCall(K_Xs)>>]
         @@ reduceMeanVar([i \in 1..Len(K_Xs.val) |-> solveL(L, K_Xs.val[i])],
                          cpAlpha(L, y), params.signalVariance)

\* computePosterior with observations: K_XX, its factor L, then K_Xs
cpObserved(K0, X, y, testX, params) ==
    IF K0.outcome = "throw"
    THEN Thrown(K0.err, <<KCall(K0)>>)
    ELSE cpReduce(K0, cholesky(addDiag(K0.val, noiseDiag(params))),
                  kernelMatrix(testX, X, params.lengthScale,
                               params.signalVariance, kernelNameOf(params)),
                  y, params)

\* computePosterior: the result, with the kernel lookups and factorizations
\* it made, in order
computePosterior(points, testX, params) ==
    IF Len(points) = 0 THEN priorResult(Len(testX), params)
    ELSE cpObserved(kernelMatrix(XOf(points), XOf(points), params.lengthScale,
                                 params.signalVariance, kernelNameOf(params)),
                    XOf(points), YOf(points), testX, params)

\* numpy.matmul of @jax-js/jax on conformant matrices
matmul(A, B) ==
    [i \in 1..Len(A) |-> [j \in 1..Len(B[1]) |->
        rowDot(A[i], [k \in 1..Len(B) |-> B[k][j]], 0, Zero)]]

\* the prior branch of sampleFromGP: L = cholesky(K + 1e-8 I)
samplePrior(K) ==
    IF K.outcome = "throw"
    THEN Thrown(K.err, <<KCall(K)>>)
    ELSE [outcome |-> "ok", branch |-> "prior",
          L |-> cholesky(addDiag(K.val, JITTER)),
          alpha |-> << >>, mu |-> << >>, calls |-> <<KCall(K), CholCall>>]

\* Sigma = K_ss - V^T V, V the matrix whose columns are solveL(L_XX, K_Xs[i])
sigmaOf(K_ss, vcols, n) ==
    LET m == Len(vcols)
        V == [j \in 1..n |-> [i \in 1..m |-> vcols[i][j]]]
    IN  IF m = 0 THEN << >>
        ELSE LET VtV == matmul(transpose(V).val, V)
             IN  [i \in 1..m |-> [j \in 1..m |-> SubN(K_ss[i][j], VtV[i][j])]]

\* the posterior branch from alpha on: mu, Sigma and the factor of Sigma
samplePosterior(L_XX, K_Xs, K_ss, y, alpha, calls) ==
    [outcome |-> "ok", branch |-> "posterior",
     L |-> cholesky(addDiag(
               sigmaOf(K_ss, [i \in 1..Len(K_Xs) |-> solveL(L_XX, K_Xs[i])],
                       Len(y)),
               SIGMA_JITTER)),
     alpha |-> alpha, mu |-> matVec(K_Xs, alpha), calls |-> calls]

\* the posterior branch once the three kernel matrices are asked for
sampleKernels(K0, L_XX, K_Xs, K_ss, y, jaxThrows) ==
    IF K_Xs.outcome = "throw"
    THEN Thrown(K_Xs.err, <<KCall(K0), CholCall, KCall(K_Xs)>>)
    ELSE IF K_ss.outcome = "throw"
    THEN Thrown(K_ss.err, <<KCall(K0), CholCall, KCall(K_Xs), KCall(K_ss)>>)
    ELSE IF jaxThrows
    THEN Thrown("jax", <<KCall(K0), CholCall, KCall(K_Xs), KCall(K_ss)>>)
    ELSE samplePosterior(L_XX, K_Xs.val, K_ss.val, y, choleskySolve(L_XX, y),
                         <<KCall(K0), CholCall, KCall(K_Xs), KCall(K_ss),
                           CholCall>>)

\* the posterior branch of sampleFromGP: K_XX and its factor first
sampleObserved(K0, X, y, sampleX, params, jaxThrows) ==
    IF K0.outcome = "throw"
    THEN Thrown(K0.err, <<KCall(K0)>>)
    ELSE sampleKernels(K0, cholesky(addDiag(K0.val, noiseDiag(params))),
                       kernelMatrix(sampleX, X, params.lengthScale,
                                    params.signalVariance, kernelNameOf(params)),
                       kernelMatrix(sampleX, sampleX, params.lengthScale,
                                    params.signalVariance, kernelNameOf(params)),
                       y, jaxThrows)

\* sampleFromGP up to its first randn(): the branch taken, the factor to
\* multiply z by, the posterior mean, and the lookups and factorizations made.
\* For m = 0 with observations the shapes handed to numpy.matmul do not
\* conform; whether the library then throws is left open (jaxThrows).
sampleSetup(points, sampleX, params, jaxThrows) ==
    IF Len(points) = 0
    THEN samplePrior(kernelMatrix(sampleX, sampleX, params.lengthScale,
                                  params.signalVariance, kernelNameOf(params)))
    ELSE sampleObserved(kernelMatrix(XOf(points), XOf(points),
                                     params.lengthScale, params.signalVariance,
                                     kernelNameOf(params)),
                        XOf(points), YOf(points), sampleX, params, jaxThrows)

\* the value sampleFromGP returns once z is drawn
sampleResult(branch, L, mu, z) ==
    IF branch = "prior" THEN matVec(L, z)
    ELSE LET Lz == matVec(L, z)
         IN  [i \in 1..Len(mu) |-> AddN(mu[i], At(Lz, i - 1))]

---------------------------------------------------------------------------
(* randn: Box-Muller over Math.random()                                    *)

\* Math.log, tabulated on the values the uniform source yields (to about 4%,
\* so that -2 * log is the square of a rational)
LogN(a) ==
    CASE a = Zero      -> NegInf
      [] a = Rat(1, 2) -> Rat(-18, 25)
      [] a = Rat(1, 3) -> Rat(-9, 8)

\* Math.cos(2 * Math.PI * v), tabulated on the values the source yields
CosTwoPi(a) ==
    CASE a = Zero      -> One
      [] a = Rat(1, 2) -> Num(-1)
      [] a = Rat(1, 3) -> Rat(-1, 2)

\* Math.sqrt(-2 * Math.log(u)) * Math.cos(2 * Math.PI * v)
boxMuller(uu, vv) == MulN(SqrtN(MulN(Num(-2), LogN(uu))), CosTwoPi(vv))

\* a first loop that never redraws (a variant of loopU that C9 must tell
\* apart)
loopUNever(uu) == FALSE

\* the conditions of the two while loops of randn
loopU(uu) == uu = Zero

loopV(vv) == vv = Zero

\* z filled from the front (a variant of pushZ that C8 must tell apart)
pushZFront(z, val) == <<val>> \o z

\* Array(m).fill(null).map(() => randn()): the next element of z
pushZ(z, val) == Append(z, val)

---------------------------------------------------------------------------
(* Bounds and the inputs the calls are drawn from                          *)

\* observations per call
MaxObs == 2

\* query (sample) inputs per call
MaxQuery == 2

\* sample inputs of a sampleFromGP call that has observations
MaxPostQuery == 2

\* rows of a matrix and entries of a vector handed to a primitive
MaxDim == 2

\* zero values Math.random() may return during one randn()
MaxZeros == 1

\* largest n handed to linspace
MaxLin == 5

SeqsUpTo(S, n) == UNION {[1..k -> S] : k \in 0..n}

PointVals == {[x |-> Num(0), y |-> Num(1)], [x |-> Num(1), y |-> Num(-2)]}

QueryVals == {Num(0), Num(2)}

KernelVals ==
    {Absent, "", "rbf", "matern12", "matern32", "matern52", "linear",
     "constructor", "__proto__"}

Params(k, l, s2, nl) ==
    [kernel |-> k, lengthScale |-> Num(l), signalVariance |-> Num(s2),
     noiseLevel |-> Num(nl)]

ParamSet ==
    {Params(k, 1, 8, 0) : k \in KernelVals}
    \cup {Params(k, l, s2, nl) : k \in {"rbf", "matern52"}, l \in {0, 1, 2},
                                  s2 \in {0, 8}, nl \in {0, 1}}

SamplePointVals == PointVals

SampleParamSet ==
    {Params(Absent, 1, 8, 0), Params("matern12", 2, 8, 1),
     Params("constructor", 1, 8, 0), Params("__proto__", 1, 8, 0)}

\* the arguments of the sampleFromGP calls: every prior call; of the posterior
\* calls those whose covariance factor stays within the integer range of the
\* exact arithmetic (one sample input, or a small coarse-grained problem)
SampleInputs ==
    {c \in SeqsUpTo(SamplePointVals, MaxObs) \X SeqsUpTo(QueryVals, MaxQuery)
            \X SampleParamSet :
        \/ Len(c[1]) = 0
        \/ Len(c[2]) <= 1
        \/ /\ Len(c[1]) <= 2
           /\ Len(c[2]) <= MaxPostQuery
           /\ c[3].kernel \in {"matern12", "constructor", "__proto__"}}

\* the values Math.random() returns
UniformVals == {Zero, Rat(1, 2), Rat(1, 3)}

VecVals == {Num(1), Num(-3)}

\* right-hand sides, up to the size of the largest factor
Vectors == SeqsUpTo(VecVals, MaxDim + 1)

DiagVals == {Num(1), Num(-2)}

OffVals == {Zero, Num(1), Rat(-1, 2)}

Below(n) == {p \in (1..n) \X (1..n) : p[2] < p[1]}

\* the n x n lower-triangular matrices with a nonzero diagonal
LowerMats(n) ==
    {[i \in 1..n |-> [j \in 1..n |->
        IF j > i THEN Zero ELSE IF j = i THEN d[i] ELSE o[<<i, j>>]]] :
     d \in [1..n -> DiagVals], o \in [Below(n) -> OffVals]}

Lowers == UNION {LowerMats(n) : n \in 0..MaxDim}

\* the diagonal shifts handed to addDiag: 5e-11, 1e-10, 1e-8, 2e-8
ShiftVals == {Rat(1, 200), FLOOR, JITTER, Num(2)}

GramOf(X, k, l, s2, c) == addDiag(kernelMatrix(X, X, Num(l), Num(s2), k).val, c)

GramInputs == SeqsUpTo({Num(0), Num(1), Num(2)}, MaxDim)

\* the cases <<X, kernel, lengthScale, signalVariance, c>> of
\* addDiag(kernelMatrix(X, X, ...), c), c > 0: every registered kernel under the
\* shifts 1e-8 and 2e-8, and the shifts at and below 1e-10 where the exact
\* arithmetic stays within integer range
GramCases ==
    (GramInputs \X Registered \X {1, 2} \X {0, 8} \X {JITTER, Num(2)})
    \cup ({Y \in GramInputs : Len(Y) <= 2} \X {"rbf"} \X {1} \X {8} \X {FLOOR})
    \cup (GramInputs \X {"rbf"} \X {1} \X {0} \X ShiftVals)

GramMats == {GramOf(t[1], t[2], t[3], t[4], t[5]) : t \in GramCases}

\* Cholesky factors of two training covariances
Factors ==
    {cholesky(GramOf(<<Num(0), Num(1)>>, "rbf", 1, 8, JITTER)),
     cholesky(GramOf(<<Num(0), Num(2), Num(1)>>, "matern12", 2, 8, Num(2)))}

\* matrices that are empty, not square, or ragged
BadMats ==
    {<< >>, << <<Num(1), Num(2)>> >>, << <<Num(1)>>, <<Num(2)>> >>,
     << <<Num(1), Num(2)>>, <<Num(3)>> >>}

---------------------------------------------------------------------------
(* The calls                                                               *)

NoLoc == [branch |-> "none"]

NoRet == [outcome |-> "none"]

Init ==
    /\ pc = "idle"
    /\ call = [op |-> "none"]
    /\ ret = NoRet
    /\ loc = NoLoc
    /\ u = Zero
    /\ v = Zero
    /\ zeros = 0
    /\ drawn = << >>

\* a call that runs to its result without drawing random numbers
Finish(c, r) ==
    /\ pc' = "done"
    /\ call' = c
    /\ ret' = r
    /\ UNCHANGED <<loc, u, v, zeros, drawn>>

CallComputePosterior ==
    /\ pc = "idle"
    /\ \E points \in SeqsUpTo(PointVals, MaxObs),
       testX \in SeqsUpTo(QueryVals, MaxQuery), params \in ParamSet :
        Finish([op |-> "computePosterior", points |-> points, testX |-> testX,
                params |-> params],
               computePosterior(points, testX, params))

CallLinspace ==
    /\ pc = "idle"
    /\ \E end \in {Num(0), Num(10)}, n \in (-1)..MaxLin :
        Finish([op |-> "linspace", start |-> Zero, end |-> end, n |-> n],
               linspace(Zero, end, n))

CallTranspose ==
    /\ pc = "idle"
    /\ \E A \in Lowers \cup BadMats :
        Finish([op |-> "transpose", A |-> A], transpose(A))

CallMatVec ==
    /\ pc = "idle"
    /\ \E A \in Lowers \cup BadMats \cup Factors, x \in Vectors :
        Finish([op |-> "matVec", A |-> A, x |-> x], Ok(matVec(A, x)))

CallAddDiag ==
    /\ pc = "idle"
    /\ \E A \in Lowers \cup BadMats, c \in ShiftVals :
        Finish([op |-> "addDiag", A |-> A, c |-> c], Ok(addDiag(A, c)))

CallCholesky ==
    /\ pc = "idle"
    /\ \E A \in GramMats \cup BadMats :
        Finish([op |-> "cholesky", A |-> A], Ok(cholesky(A)))

CallSolveL ==
    /\ pc = "idle"
    /\ \E L \in Lowers \cup Factors \cup BadMats, b \in Vectors :
        Finish([op |-> "solveL", L |-> L, b |-> b], Ok(solveL(L, b)))

CallSolveLT ==
    /\ pc = "idle"
    /\ \E L \in Lowers \cup Factors \cup BadMats, b \in Vectors :
        Finish([op |-> "solveLT", L |-> L, b |-> b], Ok(solveLT(L, b)))

CallCholeskySolve ==
    /\ pc = "idle"
    /\ \E L \in Lowers \cup Factors \cup BadMats, b \in Vectors :
        Finish([op |-> "choleskySolve", L |-> L, b |-> b],
               Ok(choleskySolve(L, b)))

\* where sampleFromGP stands after its setup s: ended by an error, or about to
\* draw z
SampleStart(s) ==
    IF s.outcome = "throw"
    THEN /\ pc' = "done"
         /\ ret' = s
         /\ loc' = loc
    ELSE /\ pc' = "sample_z"
         /\ ret' = ret
         /\ loc' = [branch |-> s.branch, L |-> s.L, alpha |-> s.alpha,
                    mu |-> s.mu, calls |-> s.calls, z |-> << >>]

\* sampleFromGP, up to the first randn(); an error ends the call
CallSampleFromGP ==
    /\ pc = "idle"
    /\ \E <<points, sampleX, params>> \in SampleInputs, jaxThrows \in BOOLEAN :
        /\ jaxThrows => (Len(sampleX) = 0 /\ Len(points) > 0)
        /\ call' = [op |-> "sampleFromGP", points |-> points,
                    sampleX |-> sampleX, params |-> params]
        /\ SampleStart(sampleSetup(points, sampleX, params, jaxThrows))
        /\ UNCHANGED <<u, v, zeros, drawn>>

\* a direct call of randn
CallRandn ==
    /\ pc = "idle"
    /\ pc' = "randn_u"
    /\ call' = [op |-> "randn"]
    /\ u' = Zero
    /\ v' = Zero
    /\ zeros' = 0
    /\ UNCHANGED <<ret, loc, drawn>>

\* the map callback of sampleFromGP calls randn for the next element of z
SampleCallRandn ==
    /\ pc = "sample_z"
    /\ Len(loc.z) < Len(call.sampleX)
    /\ pc' = "randn_u"
    /\ u' = Zero
    /\ v' = Zero
    /\ zeros' = 0
    /\ UNCHANGED <<call, ret, loc, drawn>>

\* one Math.random() of the first loop: while (u === 0) u = Math.random();
\* the zeros a call may draw are bounded by MaxZeros
RandnDrawU ==
    /\ pc = "randn_u"
    /\ \E x \in UniformVals :
        /\ x = Zero => zeros < MaxZeros
        /\ u' = x
        /\ pc' = IF loopU(x) THEN "randn_u" ELSE "randn_v"
        /\ zeros' = IF x = Zero THEN zeros + 1 ELSE zeros
        /\ drawn' = IF x = Zero THEN drawn ELSE Append(drawn, x)
    /\ UNCHANGED <<call, ret, loc, v>>

\* one Math.random() of the second loop: while (v === 0) v = Math.random()
RandnDrawV ==
    /\ pc = "randn_v"
    /\ \E x \in UniformVals :
        /\ x = Zero => zeros < MaxZeros
        /\ v' = x
        /\ pc' = IF loopV(x) THEN "randn_v" ELSE "randn_ret"
        /\ zeros' = IF x = Zero THEN zeros + 1 ELSE zeros
        /\ drawn' = IF x = Zero THEN drawn ELSE Append(drawn, x)
    /\ UNCHANGED <<call, ret, loc, u>>

\* return Math.sqrt(-2 * Math.log(u)) * Math.cos(2 * Math.PI * v)
RandnReturn ==
    /\ pc = "randn_ret"
    /\ IF call.op = "randn"
       THEN /\ pc' = "done"
            /\ ret' = Ok(boxMuller(u, v))
            /\ loc' = loc
       ELSE /\ pc' = "sample_z"
            /\ ret' = ret
            /\ loc' = [loc EXCEPT !.z = pushZ(@, boxMuller(u, v))]
    /\ UNCHANGED <<call, u, v, zeros, drawn>>

\* sampleFromGP returns once z has m elements
SampleFinish ==
    /\ pc = "sample_z"
    /\ Len(loc.z) = Len(call.sampleX)
    /\ pc' = "done"
    /\ ret' = [outcome |-> "ok", calls |-> loc.calls,
               val |-> sampleResult(loc.branch, loc.L, loc.mu, loc.z)]
    /\ UNCHANGED <<call, loc, u, v, zeros, drawn>>

\* the caller takes the result; nothing is kept between calls
Return ==
    /\ pc = "done"
    /\ pc' = "idle"
    /\ call' = [op |-> "none"]
    /\ ret' = NoRet
    /\ loc' = NoLoc
    /\ u' = Zero
    /\ v' = Zero
    /\ zeros' = 0
    /\ drawn' = << >>

Next ==
    \/ CallComputePosterior
    \/ CallSampleFromGP
    \/ CallRandn
    \/ CallLinspace
    \/ CallTranspose
    \/ CallMatVec
    \/ CallAddDiag
    \/ CallCholesky
    \/ CallSolveL
    \/ CallSolveLT
    \/ CallCholeskySolve
    \/ SampleCallRandn
    \/ RandnDrawU
    \/ RandnDrawV
    \/ RandnReturn
    \/ SampleFinish
    \/ Return

Spec == Init /\ [][Next]_vars

\* randn leaves its return statement: the step RandnReturn takes, told by the
\* control position alone
RandnExit == pc = "randn_ret" /\ pc' \in {"done", "sample_z"}

\* the uniform source eventually yields a nonzero value to each loop, and the
\* single-threaded control flow runs on to the return
FairSpec ==
    /\ Spec
    /\ WF_vars(RandnDrawU /\ u' # Zero)
    /\ WF_vars(RandnDrawV /\ v' # Zero)
    /\ WF_pc(RandnExit)

---------------------------------------------------------------------------
(* Properties                                                              *)

\* a call of op has run to its end
IsDone(op) == pc = "done" /\ call.op = op

\* a call of op has returned a value (no error)
Returned(op) == IsDone(op) /\ ret.outcome = "ok"

\* C1: called with zero observations, computePosterior returns mean 0 and
\* variance signalVariance at every query index, for every kernel value and
\* every length scale, and evaluates no kernel and factorizes no matrix
C1_PriorFallback ==
    (IsDone("computePosterior") /\ Len(call.points) = 0) =>
        /\ ret.outcome = "ok"
        /\ Len(ret.mean) = Len(call.testX)
        /\ Len(ret.variance) = Len(call.testX)
        /\ \A i \in 1..Len(call.testX) :
              /\ ret.mean[i] = Zero
              /\ ret.variance[i] = call.params.signalVariance
        /\ ret.calls = << >>

\* a prior call with two queries and a kernel name whose lookup would fail
C1_Witness ==
    /\ IsDone("computePosterior")
    /\ Len(call.points) = 0
    /\ Len(call.testX) = MaxQuery
    /\ call.params.kernel = "__proto__"
    /\ call.params.signalVariance = Num(8)
    /\ ret.variance = [i \in 1..MaxQuery |-> Num(8)]

\* C2: mean and variance of computePosterior have one entry per query input,
\* entry i being the one computed for query input i alone; the sequence
\* sampleFromGP returns has one entry per sample input
C2_OnePerQuery ==
    /\ Returned("computePosterior") =>
          /\ Len(ret.mean) = Len(call.testX)
          /\ Len(ret.variance) = Len(call.testX)
          /\ \A i \in 1..Len(call.testX) :
                computePosterior(call.points, <<call.testX[i]>>, call.params)
                    = [outcome |-> "ok", mean |-> <<ret.mean[i]>>,
                       variance |-> <<ret.variance[i]>>, calls |-> ret.calls]
    /\ Returned("sampleFromGP") => Len(ret.val) = Len(call.sampleX)

\* a posterior over two distinct queries whose means differ
C2_Witness ==
    /\ Returned("computePosterior")
    /\ Len(call.points) = MaxObs
    /\ Len(call.testX) = 2
    /\ call.testX[1] # call.testX[2]
    /\ ret.mean[1] # ret.mean[2]
    /\ ret.variance[1] # ret.variance[2]

\* v_i . v_i of query q, from the kernel matrices and the factor
vTvOf(points, q, params) ==
    LET X == XOf(points)
        K == kernelMatrix(X, X, params.lengthScale, params.signalVariance,
                          kernelNameOf(params))
        L == cholesky(addDiag(K.val, noiseDiag(params)))
        k == kernelMatrix(<<q>>, X, params.lengthScale, params.signalVariance,
                          kernelNameOf(params))
        w == solveL(L, k.val[1])
    IN  dot(w, w, 0, Zero)

\* C4: with lengthScale > 0, signalVariance >= 0 and noiseLevel >= 0 every
\* variance entry computePosterior returns is non-negative, and with at least
\* one observation it is max(signalVariance - v_i.v_i, 1e-10) >= 1e-10
C4_VarianceFloor ==
    (Returned("computePosterior") /\ call.params.lengthScale # Zero) =>
        /\ \A i \in 1..Len(ret.variance) :
              /\ GeqN(ret.variance[i], Zero)
              /\ Len(call.points) > 0 => GeqN(ret.variance[i], FLOOR)
        /\ Len(call.points) > 0 =>
              ret.variance =
                  [i \in 1..Len(call.testX) |->
                      MaxN(SubN(call.params.signalVariance,
                                vTvOf(call.points, call.testX[i], call.params)),
                           FLOOR)]

\* a posterior whose variance is clamped to the floor at a query
C4_Witness ==
    /\ Returned("computePosterior")
    /\ call.params.lengthScale # Zero
    /\ Len(call.points) > 0
    /\ Len(call.testX) > 0
    /\ ret.variance[1] = FLOOR
    /\ SubN(call.params.signalVariance,
            vTvOf(call.points, call.testX[1], call.params)) = Zero

\* the function the documented lookup resolves a kernel value to
DocumentedFn(kernel) == IF kernel \in Registered THEN kernel ELSE "rbf"

\* C3: a kernel value that is absent, empty or not a registered name resolves
\* to rbf and raises no error, at every kernelMatrix call computePosterior and
\* sampleFromGP make; a registered name resolves to the function of that name
C3_KernelFallback ==
    (pc = "done" /\ call.op \in {"computePosterior", "sampleFromGP"}) =>
        /\ ret.outcome = "throw" => ret.err = "jax"
        /\ \A i \in 1..Len(ret.calls) :
              ret.calls[i][1] = "kernelMatrix" =>
                  ret.calls[i][2] = DocumentedFn(call.params.kernel)

\* an input that violates the contract of the operation called
Violates(c) ==
    CASE c.op = "matVec" ->
            \E i \in 1..Len(c.A) : Len(c.A[i]) # Len(c.x)
      [] c.op \in {"solveL", "solveLT", "choleskySolve"} ->
            Len(c.b) # Len(c.L)
      [] c.op \in {"addDiag", "cholesky"} ->
            \E i \in 1..Len(c.A) : Len(c.A[i]) # Len(c.A)
      [] c.op = "transpose" ->
            Len(c.A) = 0 \/ \E i \in 1..Len(c.A) : Len(c.A[i]) # Len(c.A[1])
      [] c.op = "linspace" -> c.n < 2
      [] c.op \in {"computePosterior", "sampleFromGP"} ->
            c.params.lengthScale = Zero
      [] OTHER -> FALSE

\* C5: a primitive or entry point called with an input that violates its
\* contract ends in an error instead of returning a result
C5_FailFast ==
    (pc = "done" /\ Violates(call)) => ret.outcome = "throw"

\* the sum of the entries of a sequence of numbers
RECURSIVE SumSeq(_)
SumSeq(q) == IF q = << >> THEN Zero ELSE AddN(q[1], SumSeq(Tail(q)))

\* the product of the matrix A and the vector x
MatTimes(A, x) ==
    [i \in 1..Len(A) |-> SumSeq([j \in 1..Len(x) |-> MulN(A[i][j], x[j])])]

\* L is square, zero above its diagonal and nonzero on it
IsLowerTriangular(L) ==
    \A i \in 1..Len(L) :
        /\ Len(L[i]) = Len(L)
        /\ L[i][i] # Zero
        /\ \A j \in (i + 1)..Len(L) : L[i][j] = Zero

\* L has the size of A, is zero above its diagonal, and
\* sum_k L[i][k] * L[j][k] = A[i][j] for all i, j
Factorizes(L, A) ==
    /\ Len(L) = Len(A)
    /\ \A i \in 1..Len(A) :
          /\ Len(L[i]) = Len(A)
          /\ \A j \in (i + 1)..Len(A) : L[i][j] = Zero
          /\ \A j \in 1..Len(A) :
                SumSeq([k \in 1..Len(A) |-> MulN(L[i][k], L[j][k])]) = A[i][j]

\* the matrices of GramCases whose shift c is at least 1e-10
GramMatsFromFloor ==
    {GramOf(t[1], t[2], t[3], t[4], t[5]) :
        t \in {g \in GramCases : GeqN(g[5], FLOOR)}}

C7_SolveRoundTrip ==
    (/\ pc = "done"
     /\ call.op \in {"solveL", "solveLT", "choleskySolve"}
     /\ IsLowerTriangular(call.L)
     /\ Len(call.b) = Len(call.L)) =>
        LET L == call.L
            x == ret.val
            Lt == [i \in 1..Len(L) |-> [j \in 1..Len(L) |-> L[j][i]]]
        IN  /\ ret.outcome = "ok"
            /\ Len(x) = Len(L)
            /\ call.op = "solveL" => MatTimes(L, x) = call.b
            /\ call.op = "solveLT" => MatTimes(Lt, x) = call.b
            /\ call.op = "choleskySolve" =>
                  /\ x = solveLT(L, solveL(L, call.b))
                  /\ MatTimes(L, MatTimes(Lt, x)) = call.b

\* a full solve against a Cholesky factor with nonzero entries below the
\* diagonal
C7_Witness ==
    /\ Returned("choleskySolve")
    /\ Len(call.L) = 3
    /\ IsLowerTriangular(call.L)
    /\ call.L[2][1] # Zero /\ call.L[3][1] # Zero /\ call.L[3][2] # Zero
    /\ Len(call.b) = 3

\* the standard normals made of the nonzero uniforms drawn so far, two each
ZOf(d) == [i \in 1..(Len(d) \div 2) |-> boxMuller(d[2 * i - 1], d[2 * i])]

\* C8: with no observations sampleFromGP is a function of its arguments and
\* of the uniform source: z[i] is the i-th randn value, exactly
\* M = sampleInputs.length of them are drawn, and the result is matVec(L, z)
\* with L = cholesky(addDiag(K(Xs, Xs), 1e-8))
C8_PriorSample ==
    (call.op = "sampleFromGP" /\ Len(call.points) = 0) =>
        /\ pc = "sample_z" => loc.z = ZOf(drawn)
        /\ (pc = "done" /\ ret.outcome = "ok") =>
              /\ Len(drawn) = 2 * Len(call.sampleX)
              /\ loc.z = ZOf(drawn)
              /\ ret.val =
                    matVec(cholesky(addDiag(
                               kernelMatrix(call.sampleX, call.sampleX,
                                            call.params.lengthScale,
                                            call.params.signalVariance,
                                            kernelNameOf(call.params)).val,
                               JITTER)),
                           ZOf(drawn))

\* a prior sample over two distinct inputs from two different normals, the
\* source having yielded a zero on the way
C8_Witness ==
    /\ Returned("sampleFromGP")
    /\ Len(call.points) = 0
    /\ Len(call.sampleX) = 2
    /\ call.sampleX[1] # call.sampleX[2]
    /\ zeros > 0
    /\ loc.z[1] # loc.z[2]
    /\ ret.val[1] # ret.val[2]

\* randn is past its first loop only with u # 0 and at its return only with
\* u # 0 and v # 0
RandnNonzero ==
    /\ pc \in {"randn_v", "randn_ret"} => u # Zero
    /\ pc = "randn_ret" => v # Zero

\* C9: randn redraws each uniform value until it is not 0, so it cannot
\* return, nor take the logarithm, while either is 0; and it returns after
\* finitely many draws when the source eventually yields a nonzero value for
\* each of the two
C9_RandnRedraws ==
    /\ [] RandnNonzero
    /\ (pc = "randn_u") ~> (pc \in {"done", "sample_z"})

\* a direct randn call has returned after redrawing a zero
C9_Witness ==
    /\ Returned("randn")
    /\ zeros > 0
    /\ Len(drawn) = 2
    /\ ret.val = boxMuller(drawn[1], drawn[2])

\* sampleFromGP has computed alpha and mu of its posterior branch and has yet
\* to draw its noise (mu and alpha do not change for the rest of the call)
MeanComputed ==
    /\ call.op = "sampleFromGP"
    /\ loc.branch = "posterior"
    /\ pc = "sample_z"
    /\ Len(loc.z) = 0

\* C10: for the same observations, inputs and params the mean computePosterior
\* returns (a single forward solve of y) equals the mean mu sampleFromGP adds
\* its noise to (the full solve), and for a kernel of the table with
\* lengthScale > 0 both are K(X*, X) * alpha with
\* (K(X, X) + (noiseLevel^2 + 1e-8) I) * alpha = y
C10_MeansAgree ==
    MeanComputed =>
        LET X == XOf(call.points)
            y == YOf(call.points)
            kernelName == kernelNameOf(call.params)
            A == addDiag(kernelMatrix(X, X, call.params.lengthScale,
                                      call.params.signalVariance, kernelName).val,
                         noiseDiag(call.params))
            Ks == kernelMatrix(call.sampleX, X, call.params.lengthScale,
                               call.params.signalVariance, kernelName).val
        IN  /\ loc.mu = computePosterior(call.points, call.sampleX,
                                         call.params).mean
            /\ (kernelName \in Registered /\ call.params.lengthScale # Zero) =>
                  /\ MatTimes(A, loc.alpha) = y
                  /\ loc.mu = MatTimes(Ks, loc.alpha)

\* a posterior sample from two correlated observations with a nonzero mean
C10_Witness ==
    /\ MeanComputed
    /\ Len(call.points) = 2
    /\ call.points[1].x # call.points[2].x
    /\ Len(call.sampleX) > 0
    /\ call.params.kernel = "matern12"
    /\ loc.mu[1] # Zero
    /\ loc.mu = computePosterior(call.points, call.sampleX, call.params).mean

=============================================================================
